---- MODULE Spec2Model ----
(***************************************************************************)
(* Model of the claude-gitleaks proxy: the detection facade (scanner.go),  *)
(* the raw and the structured scan of a request body (scanner.go) and the  *)
(* per-request lifecycle of the proxy handler (server.go).                 *)
(*                                                                         *)
(* Texts are sequences of one-character strings.  The detection engine     *)
(* (gitleaks) is an external library: it is modelled as an ordered list of *)
(* rules, each a literal keyword context followed by a literal secret.     *)
(***************************************************************************)
EXTENDS Integers, Sequences, FiniteSets, TLC

\* ------------------------------------------------------------------ bounds
MaxLen == 2
MaxRules == 2
MaxBlocks == 1
MaxSystem == 1
MaxChars == 8
MaxRequests == 2

\* ------------------------------------------------------------ text helpers
Alphabet == {"k", "q", "<"}

SeqsUpTo(S, n) == UNION {[1..m -> S] : m \in 0..n}

Texts == SeqsUpTo(Alphabet, MaxLen)

IsAt(text, sub, i) ==
    /\ i >= 1
    /\ i + Len(sub) - 1 <= Len(text)
    /\ SubSeq(text, i, i + Len(sub) - 1) = sub

Contains(text, sub) == \E i \in 1..(Len(text) + 1) : IsAt(text, sub, i)

\* strings.Index from position from (1-based); 0 when sub does not occur
FirstIndex(text, sub, from) ==
    LET I == {i \in from..(Len(text) - Len(sub) + 1) : IsAt(text, sub, i)} IN
    IF I = {} THEN 0 ELSE CHOOSE i \in I : \A j \in I : i <= j

RECURSIVE CountFrom(_, _, _)
CountFrom(text, sub, from) ==
    LET i == FirstIndex(text, sub, from) IN
    IF i = 0 THEN 0 ELSE 1 + CountFrom(text, sub, i + Len(sub))

\* strings.Count for a non-empty sub: non-overlapping occurrences
Count(text, sub) == CountFrom(text, sub, 1)

RECURSIVE ReplaceFrom(_, _, _, _)
ReplaceFrom(text, old, new, from) ==
    LET i == FirstIndex(text, old, from) IN
    IF i = 0 THEN SubSeq(text, from, Len(text))
    ELSE SubSeq(text, from, i - 1) \o new
            \o ReplaceFrom(text, old, new, i + Len(old))

RECURSIVE Interleave(_, _, _)
Interleave(text, new, i) ==
    IF i > Len(text) THEN new
    ELSE new \o <<text[i]>> \o Interleave(text, new, i + 1)

\* a replacement that stops after the first occurrence
ReplaceFirst(text, old, new) ==
    LET i == FirstIndex(text, old, 1) IN
    IF old = <<>> \/ i = 0 THEN text
    ELSE SubSeq(text, 1, i - 1) \o new \o SubSeq(text, i + Len(old), Len(text))

\* strings.ReplaceAll: leftmost non-overlapping occurrences; an empty old
\* matches before every character and at the end
ReplaceAll(text, old, new) ==
    IF old = <<>> THEN Interleave(text, new, 1)
    ELSE ReplaceFrom(text, old, new, 1)

\* ------------------------------------------------------------- constants
Sentinel == <<"<", "R", "E", "D", "A", "C", "T", "E", "D", "_", "K", "E", "Y", ">">>

ScanPath == "/scan"
MethodPost == "POST"
StatusOK == 200
StatusBadRequest == 400
StatusMethodNotAllowed == 405
StatusInternalServerError == 500
StatusBadGateway == 502

\* --------------------------------------------------------- detection rules
Keywords == {<<>>, <<"k">>}
SecretValues == {<<"q">>, <<"<">>, <<"q", "<">>}
Rules == [key : Keywords, secret : SecretValues]
Detectors == SeqsUpTo(Rules, MaxRules)

VARIABLES
    detector,       \* Scanner.detector: the ordered rules of the engine
    rejectOnLeak,   \* Proxy.rejectOnLeak
    method,         \* r.Method
    path,           \* r.URL.Path
    query,          \* r.URL.RawQuery
    header,         \* r.Header
    inBody,         \* the bytes of r.Body
    pc,             \* position of the handler
    body,           \* local body of ServeHTTP / handleScan
    result,         \* result.Secrets of the handler's scan
    scanned,        \* texts handed to the detector, in call order
    forwards,       \* number of calls of forwardRequest
    upstream,       \* requests handed to client.Do, in call order
    status,         \* status code written to w (0: none yet)
    response,       \* payload written by handleScan
    wBody,          \* ScanAndReplaceRequestBody: the argument body
    decodable,      \* whether json.Unmarshal(body, &params) succeeds
    origParams,     \* params as decoded
    params,         \* params as mutated by the walk
    wpc,            \* position of ScanAndReplaceRequestBody
    cursor,         \* indices i (message), j (block) and of the system entry
    textScanned,    \* the running count textScanned
    wSecrets,       \* result.Secrets of ScanAndReplaceRequestBody
    ret,            \* the returned (ScanResult, body, error)
    tInput,         \* truncate: the code points of the argument s
    tpc,            \* position of truncate
    preview,        \* the bytes truncate returns
    ctxDone,        \* run: whether the context of signal.NotifyContext is done
    srv,            \* run: position of run and state of the server
    clock,          \* seconds since srv.Shutdown was called
    reqs            \* position of the handler of each request

wvars == <<wBody, decodable, origParams, params, wpc, cursor, textScanned,
           wSecrets, ret>>

tvars == <<tInput, tpc, preview>>

svars == <<ctxDone, srv, clock, reqs>>

ovars == <<tvars, svars>>

vars == <<detector, rejectOnLeak, method, path, inBody, pc, body, result,
          scanned, forwards, upstream, status, response, query, header,
          wvars, ovars>>

\* ------------------------------------------------------------ scanner.go
RECURSIVE MatchesFrom(_, _, _)
MatchesFrom(rule, text, from) ==
    LET pat == rule.key \o rule.secret
        i == FirstIndex(text, pat, from) IN
    IF i = 0 THEN <<>>
    ELSE <<rule.secret>> \o MatchesFrom(rule, text, i + Len(pat))

RECURSIVE Detect(_, _)
Detect(rules, text) ==
    IF rules = <<>> THEN <<>>
    ELSE MatchesFrom(Head(rules), text, 1) \o Detect(Tail(rules), text)

\* Scanner.Scan: one finding per leak, in the engine's order
Scan(text) == [Secrets |-> Detect(detector, text)]

\* the JSON documents the model sends: chars of the fixed parts
MessagesKey == <<"{", "\"", "m", "e", "s", "s", "a", "g", "e", "s", "\"", ":">>
SystemKey == <<",", "\"", "s", "y", "s", "t", "e", "m", "\"", ":">>
Quote == <<"\"">>

ArrayBody(m, o) ==
    MessagesKey \o <<"[">> \o Quote \o m \o Quote \o <<"]">>
        \o SystemKey \o Quote \o o \o Quote \o <<"}">>

ScalarBody(m, o) ==
    MessagesKey \o Quote \o m \o Quote
        \o SystemKey \o Quote \o o \o Quote \o <<"}">>

\* what a body carries outside its messages field
OuterTexts == {<<>>, <<"k">>, <<"q">>, <<"<">>}

Bodies ==
    Texts \cup {ArrayBody(m, o) : m \in Texts, o \in OuterTexts}
          \cup {ScalarBody(m, <<>>) : m \in Texts}

\* position of the next bracket at or after from; 0 when there is none
NextBracket(text, from) ==
    LET I == {i \in from..Len(text) : text[i] \in {"[", "]"}} IN
    IF I = {} THEN 0 ELSE CHOOSE i \in I : \A j \in I : i <= j

\* position of the bracket that closes an array opened before from
RECURSIVE MatchClose(_, _, _)
MatchClose(text, from, depth) ==
    LET j == NextBracket(text, from) IN
    IF j = 0 THEN 0
    ELSE IF text[j] = "[" THEN MatchClose(text, j + 1, depth + 1)
    ELSE IF depth = 1 THEN j
    ELSE MatchClose(text, j + 1, depth - 1)

\* gjson.Get(bodyStr, "messages"): Exists, IsArray and Raw of the value of
\* the top-level messages key
GjsonMessages(bodyStr) ==
    LET n == Len(MessagesKey)
        start == n + 1
        close == MatchClose(bodyStr, start + 1, 1) IN
    IF ~IsAt(bodyStr, MessagesKey, 1) \/ Len(bodyStr) <= n
    THEN [Exists |-> FALSE, IsArray |-> FALSE, Raw |-> <<>>]
    ELSE IF bodyStr[start] = "[" /\ close > 0
    THEN [Exists |-> TRUE, IsArray |-> TRUE,
          Raw |-> SubSeq(bodyStr, start, close)]
    ELSE [Exists |-> TRUE, IsArray |-> FALSE, Raw |-> <<>>]

\* a scan that never looks for the messages field
TextToScan_WholeBody(bodyStr) == bodyStr

TextToScan(bodyStr) ==
    LET messages == GjsonMessages(bodyStr) IN
    IF messages.Exists /\ messages.IsArray THEN messages.Raw ELSE bodyStr

\* a live scan that runs the detector on the whole body
ScanRequestBody_WholeBody(b) == Scan(b)

ScanRequestBody(b) == Scan(TextToScan(b))

\* ------------------------------------- scanner.go: the structured payload
Digits == {"1"}
FieldTexts == {<<>>, <<"q">>, <<"k", "q">>}
Numbers == {<<"1">>}

WalkRules == {[key |-> <<"k">>, secret |-> <<"q">>],
              [key |-> <<>>, secret |-> <<"1">>]}
WalkDetectors == SeqsUpTo(WalkRules, MaxRules)

\* the value of ToolUseBlockParam.Input (an any): absent, a string or a number
NilInput == [kind |-> "nil", val |-> <<>>]
Inputs == {NilInput} \cup [kind : {"str"}, val : FieldTexts \ {<<>>}]
                     \cup [kind : {"num"}, val : Numbers]

\* ToolResultBlockParam.Content entries: a text sub-block or an unscanned kind
SubBlocks == [type : {"text"}, text : FieldTexts]
                 \cup [type : {"image"}, text : {<<"k", "q">>}]

\* ContentBlockParamUnion: exactly one of OfText, OfToolUse, OfToolResult or
\* another variant ("image") is set
TextBlock(t) == [type |-> "text", text |-> t, input |-> NilInput, content |-> <<>>]
ToolUseBlock(v) == [type |-> "tool_use", text |-> <<>>, input |-> v, content |-> <<>>]
ToolResultBlock(c) == [type |-> "tool_result", text |-> <<>>, input |-> NilInput, content |-> c]
OtherBlock(d) == [type |-> "image", text |-> d, input |-> NilInput, content |-> <<>>]

Blocks ==
    {TextBlock(t) : t \in FieldTexts} \cup {ToolUseBlock(v) : v \in Inputs}
        \cup {ToolResultBlock(c) : c \in SeqsUpTo(SubBlocks, 1)}
        \cup {OtherBlock(<<"k", "q">>)}

\* params.Messages: the blocks in one message, or one message per block
OneMessage(bs) == <<[Content |-> bs]>>
OnePerMessage(bs) == [i \in 1..Len(bs) |-> [Content |-> <<bs[i]>>]]

ParamsSet ==
    [Messages : {OneMessage(bs) : bs \in SeqsUpTo(Blocks, MaxBlocks)}
                    \cup {OnePerMessage(bs) : bs \in SeqsUpTo(Blocks, MaxBlocks)},
     System : SeqsUpTo(FieldTexts, MaxSystem)]
NoParams == [Messages |-> <<>>, System |-> <<>>]

Str(s) == [i \in 1..Len(s) |-> s[i]]

\* encoding/json escapes < and > in every string it writes
U003C == <<"\\", "u", "0", "0", "3", "c">>
U003E == <<"\\", "u", "0", "0", "3", "e">>
EscapeHTML(t) == ReplaceAll(ReplaceAll(t, <<"<">>, U003C), <<">">>, U003E)
UnescapeHTML(t) == ReplaceAll(ReplaceAll(t, U003C, <<"<">>), U003E, <<">">>)

JSONString(t) == Quote \o EscapeHTML(t) \o Quote

\* json.Marshal(content.OfToolUse.Input)
MarshalInput(v) ==
    CASE v.kind = "str" -> JSONString(v.val)
      [] v.kind = "num" -> v.val
      [] OTHER -> <<"n", "u", "l", "l">>

\* json.Unmarshal([]byte(inputStr), &newInput)
UnmarshalInput(t) ==
    LET inner == UnescapeHTML(SubSeq(t, 2, Len(t) - 1)) IN
    IF t = <<"n", "u", "l", "l">> THEN [ok |-> TRUE, value |-> NilInput]
    ELSE IF /\ Len(t) >= 2 /\ t[1] = "\"" /\ t[Len(t)] = "\""
            /\ ~Contains(inner, Quote) /\ ~Contains(inner, <<"\\">>)
    THEN [ok |-> TRUE, value |-> [kind |-> "str", val |-> inner]]
    ELSE IF t # <<>> /\ \A i \in 1..Len(t) : t[i] \in Digits
    THEN [ok |-> TRUE, value |-> [kind |-> "num", val |-> t]]
    ELSE [ok |-> FALSE, value |-> NilInput]

RECURSIVE JoinComma(_)
JoinComma(parts) ==
    IF parts = <<>> THEN <<>>
    ELSE IF Len(parts) = 1 THEN parts[1]
    ELSE parts[1] \o <<",">> \o JoinComma(Tail(parts))

JSONArray(parts) == <<"[">> \o JoinComma(parts) \o <<"]">>

TypeField(t) == <<"{", "\"", "t", "y", "p", "e", "\"", ":">> \o Quote \o Str(t) \o Quote
TextField(t) == <<",", "\"", "t", "e", "x", "t", "\"", ":">> \o JSONString(t) \o <<"}">>
DataField(t) == <<",", "\"", "d", "a", "t", "a", "\"", ":">> \o JSONString(t) \o <<"}">>

MarshalSub(b) ==
    IF b.type = "text" THEN TypeField(<<"t", "e", "x", "t">>) \o TextField(b.text)
    ELSE TypeField(<<"i", "m", "a", "g", "e">>) \o DataField(b.text)

MarshalBlock(b) ==
    CASE b.type = "text" -> TypeField(<<"t", "e", "x", "t">>) \o TextField(b.text)
      [] b.type = "tool_use" ->
            TypeField(<<"t", "o", "o", "l", "_", "u", "s", "e">>)
                \o <<",", "\"", "i", "n", "p", "u", "t", "\"", ":">>
                \o MarshalInput(b.input) \o <<"}">>
      [] b.type = "tool_result" ->
            TypeField(<<"t", "o", "o", "l", "_", "r", "e", "s", "u", "l", "t">>)
                \o <<",", "\"", "c", "o", "n", "t", "e", "n", "t", "\"", ":">>
                \o JSONArray([k \in 1..Len(b.content) |-> MarshalSub(b.content[k])])
                \o <<"}">>
      [] OTHER -> TypeField(<<"i", "m", "a", "g", "e">>) \o DataField(b.text)

MarshalMessage(m) ==
    <<"{", "\"", "c", "o", "n", "t", "e", "n", "t", "\"", ":">>
        \o JSONArray([j \in 1..Len(m.Content) |-> MarshalBlock(m.Content[j])])
        \o <<"}">>

\* json.Marshal(params): the JSON document of a MessageNewParams
MarshalParams(p) ==
    MessagesKey
        \o JSONArray([i \in 1..Len(p.Messages) |-> MarshalMessage(p.Messages[i])])
        \o (IF p.System = <<>> THEN <<>>
            ELSE SystemKey \o JSONArray([i \in 1..Len(p.System) |->
                    TypeField(<<"t", "e", "x", "t">>) \o TextField(p.System[i])]))
        \o <<"}">>

\* a body cut off before its closing brace: not a JSON document
Truncated(b) == SubSeq(b, 1, Len(b) - 1)

UndecodableBodies ==
    FieldTexts \cup {Truncated(ArrayBody(m, o)) : m \in FieldTexts, o \in FieldTexts}
               \cup {Truncated(ScalarBody(m, <<>>)) : m \in FieldTexts}

\* strings.ReplaceAll over result.Secrets, in order
RECURSIVE ReplaceSecrets(_, _, _)
ReplaceSecrets(text, secrets, replacement) ==
    IF secrets = <<>> THEN text
    ELSE ReplaceSecrets(ReplaceAll(text, Head(secrets), replacement),
                        Tail(secrets), replacement)

\* ------------------------------------------------------------- server.go
RECURSIVE redactSecrets(_, _)
redactSecrets(text, secrets) ==
    IF secrets = <<>> THEN text
    ELSE redactSecrets(ReplaceAll(text, Head(secrets), Sentinel), Tail(secrets))

\* truncate: the preview of a secret for logs and for the debug response
truncate(s) ==
    LET length == Len(s) IN
    IF length < 8 THEN <<"*", "*", "*", "*", "*", "*", "*", "*">>
    ELSE SubSeq(s, 1, 2) \o <<"*", "*", "*", "*">> \o SubSeq(s, length - 1, length)

\* --------------------------------------------- server.go: copyHeaders
Uppers == <<"A", "B", "C", "D", "E", "F", "G", "H", "I", "J", "K", "L", "M",
            "N", "O", "P", "Q", "R", "S", "T", "U", "V", "W", "X", "Y", "Z">>
Lowers == <<"a", "b", "c", "d", "e", "f", "g", "h", "i", "j", "k", "l", "m",
            "n", "o", "p", "q", "r", "s", "t", "u", "v", "w", "x", "y", "z">>

LowerChar(c) ==
    IF \E i \in 1..Len(Uppers) : Uppers[i] = c
    THEN Lowers[CHOOSE i \in 1..Len(Uppers) : Uppers[i] = c] ELSE c

UpperChar(c) ==
    IF \E i \in 1..Len(Lowers) : Lowers[i] = c
    THEN Uppers[CHOOSE i \in 1..Len(Lowers) : Lowers[i] = c] ELSE c

\* strings.ToLower
ToLower(s) == [i \in 1..Len(s) |-> LowerChar(s[i])]

\* the canonical form http.Header.Add gives a key: upper case for the first
\* letter and for a letter after a hyphen, lower case for the others
CanonicalKey(s) ==
    [i \in 1..Len(s) |->
        IF i = 1 \/ s[i - 1] = "-" THEN UpperChar(s[i]) ELSE LowerChar(s[i])]

KeyHost == <<"H", "o", "s", "t">>
KeyContentLength == <<"c", "o", "n", "t", "e", "n", "t", "-", "l", "e", "n", "g", "t", "h">>
KeyApi == <<"X", "-", "K", "e", "y">>
KeyApiLower == <<"x", "-", "k", "e", "y">>

HeaderKeys == {KeyHost, KeyContentLength, KeyApi, KeyApiLower}
AllKeys == HeaderKeys \cup {CanonicalKey(k) : k \in HeaderKeys}

\* an http.Header: a map from the keys it holds to their values
HeaderValues == {<<"a">>, <<"a", "b">>}
NoHeader == [k \in {} |-> <<>>]
Headers == UNION {[K -> HeaderValues] : K \in SUBSET HeaderKeys}

\* http.Header.Values: none for a key the map does not hold
Values(h, k) == IF k \in DOMAIN h THEN h[k] ELSE <<>>

\* the orders in which "for key, values := range src" can visit the keys
Orders(h) ==
    {o \in [1..Cardinality(DOMAIN h) -> DOMAIN h] :
        \A i, j \in DOMAIN o : o[i] = o[j] => i = j}

\* http.Header.Add
Add(dst, key, v) ==
    LET c == CanonicalKey(key) IN
    [k \in DOMAIN dst \cup {c} |->
        IF k = c THEN Append(Values(dst, c), v) ELSE dst[k]]

RECURSIVE AddValues(_, _, _)
AddValues(dst, key, values) ==
    IF values = <<>> THEN dst
    ELSE AddValues(Add(dst, key, Head(values)), key, Tail(values))

\* copyHeaders(dst, src, exclude...), the keys of src visited in this order
RECURSIVE copyHeaders(_, _, _, _)
copyHeaders(dst, src, exclude, order) ==
    LET excludeSet == {ToLower(k) : k \in exclude}
        key == Head(order)
    IN  IF order = <<>> THEN dst
        ELSE IF ToLower(key) \in excludeSet
        THEN copyHeaders(dst, src, exclude, Tail(order))
        ELSE copyHeaders(AddValues(dst, key, src[key]), src, exclude, Tail(order))

\* ------------------------------------------ server.go: forwardRequest
UpstreamOrigin == "https://upstream"
Queries == {<<>>, <<"a">>, <<"a", "#", "b">>}

\* url.URL.String of the target: the origin, the path and, after a question
\* mark, a raw query that is not empty
URLString(origin, p, q) ==
    <<origin, p>> \o (IF q = <<>> THEN <<>> ELSE <<"?">> \o q)

\* url.Parse, which http.NewRequestWithContext applies to that string: what
\* follows the first # is the fragment, and of the rest what follows the
\* first question mark is the raw query
ParseURL(u) ==
    LET h == FirstIndex(u, <<"#">>, 1)
        rest == IF h = 0 THEN u ELSE SubSeq(u, 1, h - 1)
        m == FirstIndex(rest, <<"?">>, 1)
    IN  [origin |-> rest[1], Path |-> rest[2],
         RawQuery |-> IF m = 0 THEN <<>> ELSE SubSeq(rest, m + 1, Len(rest)),
         Fragment |-> IF h = 0 THEN <<>> ELSE SubSeq(u, h + 1, Len(u))]

\* the request handed to client.Do
UpstreamRequest(order) ==
    LET target == ParseURL(URLString(UpstreamOrigin, path, query)) IN
    [method |-> method, origin |-> target.origin, path |-> target.Path,
     query |-> target.RawQuery,
     header |-> copyHeaders(NoHeader, header,
                            {ToLower(KeyHost), KeyContentLength}, order),
     body |-> body]

Methods == {"GET", "POST"}
Paths == {"/scan", "/v1/messages"}
UpstreamStatuses == {200, 400}
NoResponse == [redacted |-> <<>>, count |-> 0, findings |-> <<>>]

NoRet == [path |-> "none", Secrets |-> <<>>, body |-> <<>>, err |-> FALSE]

WalkerIdle ==
    /\ wBody = <<>> /\ decodable = FALSE
    /\ origParams = NoParams /\ params = NoParams
    /\ wpc = "idle" /\ cursor = [i |-> 0, j |-> 0, s |-> 0]
    /\ textScanned = 0 /\ wSecrets = <<>> /\ ret = NoRet

TruncateIdle == tInput = <<>> /\ tpc = "idle" /\ preview = <<>>

Requests == 1..MaxRequests

ShutdownIdle ==
    /\ ctxDone = FALSE /\ srv = "idle" /\ clock = 0
    /\ reqs = [r \in Requests |-> "none"]

Init ==
    /\ detector \in Detectors
    /\ rejectOnLeak \in BOOLEAN
    /\ method \in Methods
    /\ path \in Paths
    /\ query = <<>>
    /\ header = NoHeader
    /\ inBody \in Bodies
    /\ pc = "Received"
    /\ body = <<>>
    /\ result = <<>>
    /\ scanned = <<>>
    /\ forwards = 0
    /\ upstream = <<>>
    /\ status = 0
    /\ response = NoResponse
    /\ WalkerIdle
    /\ TruncateIdle
    /\ ShutdownIdle

\* a debug handler without the method check
HandleScan_NoMethodCheck ==
    /\ pc = "Received"
    /\ path = ScanPath
    /\ body' = inBody
    /\ result' = Scan(inBody).Secrets
    /\ scanned' = Append(scanned, inBody)
    /\ response' = [redacted |-> redactSecrets(inBody, result'),
                    count |-> Len(result'),
                    findings |-> [i \in 1..Len(result') |->
                        [index |-> i, preview |-> truncate(result'[i])]]]
    /\ status' = StatusOK
    /\ pc' = "ScanAnswered"
    /\ UNCHANGED <<wvars, ovars, query, header>>
    /\ UNCHANGED <<detector, rejectOnLeak, method, path, inBody, forwards, upstream>>

\* Proxy.handleScan, reached from ServeHTTP for the debug path
HandleScan ==
    /\ pc = "Received"
    /\ path = ScanPath
    /\ \/ /\ method # MethodPost
          /\ status' = StatusMethodNotAllowed
          /\ pc' = "ScanMethodNotAllowed"
          /\ UNCHANGED <<body, result, scanned, response>>
       \/ /\ method = MethodPost
          /\ status' = StatusInternalServerError
          /\ pc' = "ScanReadFailed"
          /\ UNCHANGED <<body, result, scanned, response>>
       \/ /\ method = MethodPost
          /\ body' = inBody
          /\ result' = Scan(inBody).Secrets
          /\ scanned' = Append(scanned, inBody)
          /\ response' = [redacted |-> redactSecrets(inBody, result'),
                          count |-> Len(result'),
                          findings |-> [i \in 1..Len(result') |->
                              [index |-> i, preview |-> truncate(result'[i])]]]
          /\ status' = StatusOK
          /\ pc' = "ScanAnswered"
    /\ UNCHANGED <<wvars, ovars, query, header>>
    /\ UNCHANGED <<detector, rejectOnLeak, method, path, inBody, forwards, upstream>>

\* ServeHTTP: io.ReadAll(r.Body)
ReadBody ==
    /\ pc = "Received"
    /\ path # ScanPath
    /\ \/ /\ body' = inBody
          /\ pc' = "BodyRead"
          /\ UNCHANGED status
       \/ /\ status' = StatusInternalServerError
          /\ pc' = "ReadFailed"
          /\ UNCHANGED body
    /\ UNCHANGED <<wvars, ovars, query, header>>
    /\ UNCHANGED <<detector, rejectOnLeak, method, path, inBody, result,
                   scanned, forwards, upstream, response>>

\* a scan step that does not look at the length of the body
ScanBody_Always ==
    /\ pc = "BodyRead"
    /\ result' = ScanRequestBody(body).Secrets
    /\ scanned' = Append(scanned, TextToScan(body))
    /\ pc' = "Scanned"
    /\ UNCHANGED <<wvars, ovars, query, header>>
    /\ UNCHANGED <<detector, rejectOnLeak, method, path, inBody, body,
                   forwards, upstream, status, response>>

\* ServeHTTP: len(body) == 0 skips the scan
SkipScan ==
    /\ pc = "BodyRead"
    /\ Len(body) = 0
    /\ pc' = "Forward"
    /\ UNCHANGED <<wvars, ovars, query, header>>
    /\ UNCHANGED <<detector, rejectOnLeak, method, path, inBody, body, result,
                   scanned, forwards, upstream, status, response>>

\* ServeHTTP: result := p.scanner.ScanRequestBody(body)
ScanBody ==
    /\ pc = "BodyRead"
    /\ Len(body) > 0
    /\ result' = ScanRequestBody(body).Secrets
    /\ scanned' = Append(scanned, TextToScan(body))
    /\ pc' = "Scanned"
    /\ UNCHANGED <<wvars, ovars, query, header>>
    /\ UNCHANGED <<detector, rejectOnLeak, method, path, inBody, body,
                   forwards, upstream, status, response>>

\* a decision that ignores the reject mode
Decide_NoReject ==
    /\ pc = "Scanned"
    /\ body' = redactSecrets(body, result)
    /\ pc' = "Forward"
    /\ UNCHANGED <<wvars, ovars, query, header>>
    /\ UNCHANGED <<detector, rejectOnLeak, method, path, inBody, result,
                   scanned, forwards, upstream, status, response>>

\* ServeHTTP: the decision on the findings
Decide ==
    /\ pc = "Scanned"
    /\ IF Len(result) > 0
       THEN IF rejectOnLeak
            THEN /\ status' = StatusBadRequest
                 /\ pc' = "Rejected"
                 /\ UNCHANGED body
            ELSE /\ body' = redactSecrets(body, result)
                 /\ pc' = "Forward"
                 /\ UNCHANGED status
       ELSE /\ pc' = "Forward"
            /\ UNCHANGED <<body, status>>
    /\ UNCHANGED <<wvars, ovars, query, header>>
    /\ UNCHANGED <<detector, rejectOnLeak, method, path, inBody, result,
                   scanned, forwards, upstream, response>>

\* a forwarding step that tries the upstream call again after a failure
ForwardRequest_Retry ==
    /\ pc = "Forward"
    /\ forwards < 2
    /\ forwards' = forwards + 1
    /\ \E order \in Orders(header) :
           upstream' = Append(upstream, UpstreamRequest(order))
    /\ \/ /\ pc' = "Forward"
          /\ UNCHANGED status
       \/ /\ pc' = "Forwarded"
          /\ UNCHANGED status
    /\ UNCHANGED <<wvars, ovars, query, header>>
    /\ UNCHANGED <<detector, rejectOnLeak, method, path, inBody, body, result,
                   scanned, response>>

\* Proxy.forwardRequest up to the return of client.Do
ForwardRequest ==
    /\ pc = "Forward"
    /\ forwards' = forwards + 1
    /\ \/ /\ status' = StatusInternalServerError
          /\ pc' = "CreateFailed"
          /\ UNCHANGED upstream
       \/ /\ \E order \in Orders(header) :
                 upstream' = Append(upstream, UpstreamRequest(order))
          /\ status' = StatusBadGateway
          /\ pc' = "UpstreamFailed"
       \/ /\ \E order \in Orders(header) :
                 upstream' = Append(upstream, UpstreamRequest(order))
          /\ pc' = "Forwarded"
          /\ UNCHANGED status
    /\ UNCHANGED <<wvars, ovars, query, header>>
    /\ UNCHANGED <<detector, rejectOnLeak, method, path, inBody, body, result,
                   scanned, response>>

\* Proxy.forwardRequest: relay of the upstream response
RelayResponse ==
    /\ pc = "Forwarded"
    /\ \E code \in UpstreamStatuses : status' = code
    /\ pc' = "ResponseRelayed"
    /\ UNCHANGED <<wvars, ovars, query, header>>
    /\ UNCHANGED <<detector, rejectOnLeak, method, path, inBody, body, result,
                   scanned, forwards, upstream, response>>

Next ==
    \/ HandleScan
    \/ ReadBody
    \/ SkipScan
    \/ ScanBody
    \/ Decide
    \/ ForwardRequest
    \/ RelayResponse

Spec == Init /\ [][Next]_vars

\* requests that differ in their query and headers, through the same handler
FInit ==
    /\ detector \in {<<>>, <<[key |-> <<>>, secret |-> <<"q">>]>>}
    /\ rejectOnLeak \in BOOLEAN
    /\ method \in Methods
    /\ path \in Paths
    /\ query \in Queries
    /\ header \in Headers
    /\ inBody \in {<<>>, <<"q">>}
    /\ pc = "Received"
    /\ body = <<>>
    /\ result = <<>>
    /\ scanned = <<>>
    /\ forwards = 0
    /\ upstream = <<>>
    /\ status = 0
    /\ response = NoResponse
    /\ WalkerIdle
    /\ TruncateIdle
    /\ ShutdownIdle

SpecForward == FInit /\ [][Next]_vars

Terminal == {"ScanMethodNotAllowed", "ScanReadFailed", "ScanAnswered",
    "ReadFailed", "Rejected", "CreateFailed", "UpstreamFailed", "ResponseRelayed"}

TypeOK == pc \in {"Received", "ScanMethodNotAllowed", "ScanReadFailed",
    "ScanAnswered", "BodyRead", "ReadFailed", "Scanned", "Rejected", "Forward",
    "CreateFailed", "UpstreamFailed", "Forwarded", "ResponseRelayed"}
\* ------------------------- scanner.go: Scanner.ScanAndReplaceRequestBody
Nothing(b) == [block |-> b, secrets |-> <<>>, texts |-> <<>>, n |-> 0]

\* a text field (text block, tool-result text, system entry): scan, replace
ProcessText(b) ==
    IF b.text = <<>> THEN Nothing(b)
    ELSE LET found == Scan(b.text).Secrets IN
         [block |-> [b EXCEPT !.text = ReplaceSecrets(b.text, found, Sentinel)],
          secrets |-> found, texts |-> <<b.text>>, n |-> Len(b.text)]

\* a tool-use step that drops the findings of an input it could not rewrite
ProcessToolUse_HideFailure(b) ==
    IF b.input = NilInput THEN Nothing(b)
    ELSE LET inputJSON == MarshalInput(b.input)
             found == Scan(inputJSON).Secrets
             parsed == UnmarshalInput(ReplaceSecrets(inputJSON, found, Sentinel)) IN
         [block |-> IF Len(found) > 0 /\ parsed.ok
                    THEN [b EXCEPT !.input = parsed.value] ELSE b,
          secrets |-> IF parsed.ok THEN found ELSE <<>>,
          texts |-> <<inputJSON>>, n |-> Len(inputJSON)]

\* a tool-use block: marshal the input, scan, replace, re-parse
ProcessToolUse(b) ==
    IF b.input = NilInput THEN Nothing(b)
    ELSE LET inputJSON == MarshalInput(b.input)
             found == Scan(inputJSON).Secrets
             inputStr == ReplaceSecrets(inputJSON, found, Sentinel)
             parsed == UnmarshalInput(inputStr) IN
         [block |-> IF Len(found) > 0 /\ parsed.ok
                    THEN [b EXCEPT !.input = parsed.value] ELSE b,
          secrets |-> found, texts |-> <<inputJSON>>, n |-> Len(inputJSON)]

\* a tool-result block: every text sub-block of its content, in order
RECURSIVE ProcessSubs(_, _, _)
ProcessSubs(b, k, acc) ==
    IF k > Len(b.content) THEN [acc EXCEPT !.block = b]
    ELSE IF b.content[k].type # "text" THEN ProcessSubs(b, k + 1, acc)
    ELSE LET r == ProcessText(b.content[k]) IN
         ProcessSubs([b EXCEPT !.content[k] = r.block], k + 1,
                     [block |-> b, secrets |-> acc.secrets \o r.secrets,
                      texts |-> acc.texts \o r.texts, n |-> acc.n + r.n])

ProcessBlock(b) ==
    CASE b.type = "text" -> ProcessText(b)
      [] b.type = "tool_use" -> ProcessToolUse(b)
      [] b.type = "tool_result" -> ProcessSubs(b, 1, Nothing(b))
      [] OTHER -> Nothing(b)

ProxyIdle ==
    /\ rejectOnLeak = FALSE /\ method = "" /\ path = "" /\ inBody = <<>>
    /\ pc = "idle" /\ body = <<>> /\ result = <<>> /\ forwards = 0
    /\ upstream = <<>> /\ status = 0 /\ response = NoResponse
    /\ query = <<>> /\ header = NoHeader

pvars == <<rejectOnLeak, method, path, inBody, pc, body, result, forwards,
           upstream, status, response, query, header, ovars>>

WInit ==
    /\ detector \in WalkDetectors
    /\ \/ /\ decodable = FALSE
          /\ wBody \in UndecodableBodies
          /\ origParams = NoParams
       \/ /\ decodable = TRUE
          /\ origParams \in ParamsSet
          /\ wBody = MarshalParams(origParams)
    /\ params = NoParams
    /\ wpc = "start"
    /\ cursor = [i |-> 1, j |-> 1, s |-> 1]
    /\ textScanned = 0
    /\ wSecrets = <<>>
    /\ ret = NoRet
    /\ scanned = <<>>
    /\ ProxyIdle
    /\ TruncateIdle
    /\ ShutdownIdle

\* json.Unmarshal(body, &params); on an error the raw scan and replacement
Unmarshal ==
    /\ wpc = "start"
    /\ IF decodable
       THEN /\ params' = origParams
            /\ wpc' = "walk"
            /\ UNCHANGED <<scanned, ret>>
       ELSE LET found == ScanRequestBody(wBody).Secrets IN
            /\ scanned' = Append(scanned, TextToScan(wBody))
            /\ ret' = [path |-> "raw", Secrets |-> found,
                       body |-> ReplaceSecrets(wBody, found, Sentinel),
                       err |-> FALSE]
            /\ wpc' = "done"
            /\ UNCHANGED params
    /\ UNCHANGED <<detector, pvars, wBody, decodable, origParams, cursor,
                   textScanned, wSecrets>>

\* one iteration of the loop over msg.Content
WalkBlock ==
    /\ wpc = "walk"
    /\ cursor.i <= Len(params.Messages)
    /\ cursor.j <= Len(params.Messages[cursor.i].Content)
    /\ LET r == ProcessBlock(params.Messages[cursor.i].Content[cursor.j]) IN
       /\ params' = [params EXCEPT !.Messages[cursor.i].Content[cursor.j] = r.block]
       /\ wSecrets' = wSecrets \o r.secrets
       /\ scanned' = scanned \o r.texts
       /\ textScanned' = textScanned + r.n
    /\ cursor' = [cursor EXCEPT !.j = cursor.j + 1]
    /\ UNCHANGED <<detector, pvars, wBody, decodable, origParams, wpc, ret>>

\* the loop over params.Messages moves to the next message
NextMessage ==
    /\ wpc = "walk"
    /\ cursor.i <= Len(params.Messages)
    /\ cursor.j > Len(params.Messages[cursor.i].Content)
    /\ cursor' = [cursor EXCEPT !.i = cursor.i + 1, !.j = 1]
    /\ UNCHANGED <<detector, pvars, scanned, wBody, decodable, origParams,
                   params, wpc, textScanned, wSecrets, ret>>

\* one iteration of the loop over params.System
WalkSystem ==
    /\ wpc = "walk"
    /\ cursor.i > Len(params.Messages)
    /\ cursor.s <= Len(params.System)
    /\ LET r == ProcessText(TextBlock(params.System[cursor.s])) IN
       /\ params' = [params EXCEPT !.System[cursor.s] = r.block.text]
       /\ wSecrets' = wSecrets \o r.secrets
       /\ scanned' = scanned \o r.texts
       /\ textScanned' = textScanned + r.n
    /\ cursor' = [cursor EXCEPT !.s = cursor.s + 1]
    /\ UNCHANGED <<detector, pvars, wBody, decodable, origParams, wpc, ret>>

\* a return that hands out the rewritten bytes together with the error
Finish_PartialOnError ==
    /\ wpc = "walk"
    /\ cursor.i > Len(params.Messages)
    /\ cursor.s > Len(params.System)
    /\ \E failed \in BOOLEAN :
          ret' = [path |-> IF failed THEN "marshalError" ELSE "ok",
                  Secrets |-> wSecrets,
                  body |-> MarshalParams(params), err |-> failed]
    /\ wpc' = "done"
    /\ UNCHANGED <<detector, pvars, scanned, wBody, decodable, origParams,
                   params, cursor, textScanned, wSecrets>>

\* after the walk: the raw-scan fallback, or json.Marshal(params)
Finish ==
    /\ wpc = "walk"
    /\ cursor.i > Len(params.Messages)
    /\ cursor.s > Len(params.System)
    /\ IF textScanned = 0
       THEN /\ scanned' = Append(scanned, TextToScan(wBody))
            /\ ret' = [path |-> "fallback",
                       Secrets |-> ScanRequestBody(wBody).Secrets,
                       body |-> wBody, err |-> FALSE]
       ELSE /\ UNCHANGED scanned
            /\ \/ ret' = [path |-> "ok", Secrets |-> wSecrets,
                          body |-> MarshalParams(params), err |-> FALSE]
               \/ ret' = [path |-> "marshalError", Secrets |-> wSecrets,
                          body |-> wBody, err |-> TRUE]
    /\ wpc' = "done"
    /\ UNCHANGED <<detector, pvars, wBody, decodable, origParams, params,
                   cursor, textScanned, wSecrets>>

WNext ==
    \/ Unmarshal
    \/ WalkBlock
    \/ NextMessage
    \/ WalkSystem
    \/ Finish

SpecWalker == WInit /\ [][WNext]_vars

WTypeOK == wpc \in {"start", "walk", "done"}

\* ------------------------------------------------- scanner.go: truncate
\* A Go string is a sequence of bytes. The argument of truncate is the UTF-8
\* encoding of a sequence of code points; an ASCII byte is written as its
\* character and any other byte in hexadecimal.
CodePoints == {"a", "U+00E9", "U+20AC"}

UTF8(c) ==
    CASE c = "U+00E9" -> <<"C3", "A9">>
      [] c = "U+20AC" -> <<"E2", "82", "AC">>
      [] OTHER -> <<c>>

RECURSIVE Encode(_)
Encode(cs) == IF cs = <<>> THEN <<>> ELSE UTF8(Head(cs)) \o Encode(Tail(cs))

ASCII == {"a", "*"}

\* the number of bytes of the code point that starts at byte i of b, and 0
\* when no code point starts there (a continuation byte, a cut encoding)
RuneLen(b, i) ==
    IF b[i] \in ASCII THEN 1
    ELSE IF IsAt(b, UTF8("U+00E9"), i) THEN 2
    ELSE IF IsAt(b, UTF8("U+20AC"), i) THEN 3
    ELSE 0

\* the characters of the string b from byte i on: a byte that starts no code
\* point counts as one (replacement) character
RECURSIVE RuneCount(_, _)
RuneCount(b, i) ==
    IF i > Len(b) THEN 0
    ELSE IF RuneLen(b, i) = 0 THEN 1 + RuneCount(b, i + 1)
    ELSE 1 + RuneCount(b, i + RuneLen(b, i))

\* b from byte i on is made of whole code points only
RECURSIVE WellFormed(_, _)
WellFormed(b, i) ==
    \/ i > Len(b)
    \/ /\ RuneLen(b, i) > 0
       /\ WellFormed(b, i + RuneLen(b, i))

Secrets == SeqsUpTo(CodePoints, MaxChars) \ {<<>>}

TInit ==
    /\ tInput \in Secrets
    /\ tpc = "call"
    /\ preview = <<>>
    /\ detector = <<>>
    /\ scanned = <<>>
    /\ ProxyIdle
    /\ WalkerIdle
    /\ ShutdownIdle

\* truncate(finding.Secret): the call and its return value
Truncate ==
    /\ tpc = "call"
    /\ preview' = truncate(Encode(tInput))
    /\ tpc' = "returned"
    /\ UNCHANGED <<detector, scanned, rejectOnLeak, method, path, inBody, pc,
                   body, result, forwards, upstream, status, response, query,
                   header, wvars, tInput, svars>>

TNext == Truncate

SpecTruncate == TInit /\ [][TNext]_vars

\* ------------------------------------------------------ trace.go: run
\* The server run starts, its requests and its shutdown. Every request
\* inherits the context of signal.NotifyContext (BaseContext), ServeHTTP
\* hands r.Context() to forwardRequest, and the upstream call is made with it.
GracePeriod == 10

Active(r) == reqs[r] \in {"reading", "upstream", "relaying"}

nonsvars == <<detector, scanned, rejectOnLeak, method, path, inBody, pc, body,
              result, forwards, upstream, status, response, query, header,
              wvars, tvars>>

SInit ==
    /\ ctxDone = FALSE
    /\ srv = "starting"
    /\ clock = 0
    /\ reqs = [r \in Requests |-> "none"]
    /\ detector = <<>>
    /\ scanned = <<>>
    /\ ProxyIdle
    /\ WalkerIdle
    /\ TruncateIdle

\* go srv.ListenAndServe(): the listener is open
Listen ==
    /\ srv = "starting"
    /\ srv' = "serving"
    /\ UNCHANGED <<ctxDone, clock, reqs, nonsvars>>

\* case err = <-srvErr: the server could not start and run returns
ListenFails ==
    /\ srv = "starting"
    /\ srv' = "exited"
    /\ UNCHANGED <<ctxDone, clock, reqs, nonsvars>>

\* the open listener accepts a request and its handler starts to read the body
Accept(r) ==
    /\ srv = "serving"
    /\ reqs[r] = "none"
    /\ reqs' = [reqs EXCEPT ![r] = "reading"]
    /\ UNCHANGED <<ctxDone, srv, clock, nonsvars>>

\* ServeHTTP from io.ReadAll to its answer (/scan, a read failure, a
\* rejection) or to the upstream call of forwardRequest
ReadDone(r) ==
    /\ srv \in {"serving", "shutdown"}
    /\ reqs[r] = "reading"
    /\ \E next \in {"done", "upstream"} : reqs' = [reqs EXCEPT ![r] = next]
    /\ UNCHANGED <<ctxDone, srv, clock, nonsvars>>

\* client.Do(req) returns a response: its context is not done
UpstreamResponds(r) ==
    /\ srv \in {"serving", "shutdown"}
    /\ reqs[r] = "upstream"
    /\ ~ctxDone
    /\ reqs' = [reqs EXCEPT ![r] = "relaying"]
    /\ UNCHANGED <<ctxDone, srv, clock, nonsvars>>

\* client.Do(req) fails on the network: 502
UpstreamFails(r) ==
    /\ srv \in {"serving", "shutdown"}
    /\ reqs[r] = "upstream"
    /\ reqs' = [reqs EXCEPT ![r] = "done"]
    /\ UNCHANGED <<ctxDone, srv, clock, nonsvars>>

\* client.Do(req) returns the error of the context, which is done: 502
AbortUpstream(r) ==
    /\ srv \in {"serving", "shutdown"}
    /\ reqs[r] = "upstream"
    /\ ctxDone
    /\ reqs' = [reqs EXCEPT ![r] = "aborted"]
    /\ UNCHANGED <<ctxDone, srv, clock, nonsvars>>

\* io.Copy(w, resp.Body) reaches the end of the upstream response
RelayDone(r) ==
    /\ srv \in {"serving", "shutdown"}
    /\ reqs[r] = "relaying"
    /\ reqs' = [reqs EXCEPT ![r] = "done"]
    /\ UNCHANGED <<ctxDone, srv, clock, nonsvars>>

\* io.Copy(w, resp.Body) stops on the error of the context, which is done
RelayCut(r) ==
    /\ srv \in {"serving", "shutdown"}
    /\ reqs[r] = "relaying"
    /\ ctxDone
    /\ reqs' = [reqs EXCEPT ![r] = "cut"]
    /\ UNCHANGED <<ctxDone, srv, clock, nonsvars>>

\* os.Interrupt: the context of signal.NotifyContext is done
Interrupt ==
    /\ srv = "serving"
    /\ ~ctxDone
    /\ ctxDone' = TRUE
    /\ UNCHANGED <<srv, clock, reqs, nonsvars>>

\* case <-ctx.Done(): run calls srv.Shutdown, which closes the listener
Shutdown ==
    /\ srv = "serving"
    /\ ctxDone
    /\ srv' = "shutdown"
    /\ clock' = 0
    /\ UNCHANGED <<ctxDone, reqs, nonsvars>>

\* a second of the timeout of shutdownCtx passes
Tick ==
    /\ srv = "shutdown"
    /\ clock < GracePeriod
    /\ clock' = clock + 1
    /\ UNCHANGED <<ctxDone, srv, reqs, nonsvars>>

\* srv.Shutdown returns nil: no request is left, run returns
ShutdownReturns ==
    /\ srv = "shutdown"
    /\ \A r \in Requests : ~Active(r)
    /\ srv' = "exited"
    /\ UNCHANGED <<ctxDone, clock, reqs, nonsvars>>

\* a shutdown that does not wait for the end of the grace period
GraceExpires_Close ==
    /\ srv = "shutdown"
    /\ \E r \in Requests : Active(r)
    /\ srv' = "exited"
    /\ reqs' = [r \in Requests |-> IF Active(r) THEN "killed" ELSE reqs[r]]
    /\ UNCHANGED <<ctxDone, clock, nonsvars>>

\* srv.Shutdown returns the error of shutdownCtx: run returns and the
\* process ends with the requests that are left
GraceExpires ==
    /\ srv = "shutdown"
    /\ clock = GracePeriod
    /\ \E r \in Requests : Active(r)
    /\ srv' = "exited"
    /\ reqs' = [r \in Requests |-> IF Active(r) THEN "killed" ELSE reqs[r]]
    /\ UNCHANGED <<ctxDone, clock, nonsvars>>

SNext ==
    \/ Listen
    \/ ListenFails
    \/ \E r \in Requests : Accept(r)
    \/ \E r \in Requests : ReadDone(r)
    \/ \E r \in Requests : UpstreamResponds(r)
    \/ \E r \in Requests : UpstreamFails(r)
    \/ \E r \in Requests : AbortUpstream(r)
    \/ \E r \in Requests : RelayDone(r)
    \/ \E r \in Requests : RelayCut(r)
    \/ Interrupt
    \/ Shutdown
    \/ Tick
    \/ ShutdownReturns
    \/ GraceExpires

SpecShutdown == SInit /\ [][SNext]_vars

STypeOK ==
    /\ ctxDone \in BOOLEAN
    /\ srv \in {"starting", "serving", "shutdown", "exited"}
    /\ clock \in 0..GracePeriod
    /\ reqs \in [Requests -> {"none", "reading", "upstream", "relaying",
                              "done", "aborted", "cut", "killed"}]

\* ---------------------------------------------------------------- claims
Proxied == path # ScanPath

\* C1: a proxied request with a non-empty body whose scan has findings is,
\* in reject mode, answered with 400 and never reaches forwardRequest or the
\* upstream; in every other case it reaches forwardRequest exactly once.
C1_RejectOrForwardOnce ==
    (Proxied /\ Len(scanned) = 1) =>
        IF rejectOnLeak /\ Len(result) > 0
        THEN /\ forwards = 0
             /\ upstream = <<>>
             /\ pc \in Terminal => (pc = "Rejected" /\ status = StatusBadRequest)
        ELSE /\ forwards <= 1
             /\ pc \in Terminal => forwards = 1

C1_Witness ==
    /\ Proxied /\ Len(inBody) > 0 /\ rejectOnLeak /\ Len(result) > 0
    /\ pc = "Rejected" /\ status = StatusBadRequest /\ upstream = <<>>

\* the sentinel and a secret overlap when a replacement can produce the
\* secret again: one contains the other, or an end of one is an end of the other
Overlaps(secret, sentinel) ==
    \/ Contains(sentinel, secret)
    \/ Contains(secret, sentinel)
    \/ \E n \in 1..Len(secret) :
          \/ IsAt(sentinel, SubSeq(secret, Len(secret) - n + 1, Len(secret)), 1)
          \/ /\ n <= Len(sentinel)
             /\ IsAt(sentinel, SubSeq(secret, 1, n), Len(sentinel) - n + 1)

Redacting == Proxied /\ ~rejectOnLeak /\ Len(result) > 0

\* C2 as stated: in redact mode a scanned body with findings leads to exactly
\* one upstream call, whose body contains no reported secret.
C2_Original ==
    (Redacting /\ pc \in {"UpstreamFailed", "ResponseRelayed"}) =>
        /\ Len(upstream) = 1
        /\ \A i \in 1..Len(result) : ~Contains(upstream[1].body, result[i])

\* C2 amended: in redact mode a scanned body with findings leads to at most
\* one upstream call (exactly one once the upstream request was built); the
\* body sent is the sequential replacement of the findings and contains no
\* reported secret that does not overlap the sentinel.
C2_RedactedUpstream ==
    Redacting =>
        /\ Len(upstream) <= 1
        /\ pc \in {"UpstreamFailed", "Forwarded", "ResponseRelayed"} => Len(upstream) = 1
        /\ \A u \in 1..Len(upstream) : \A i \in 1..Len(result) :
              ~Overlaps(result[i], Sentinel) =>
                  /\ ~Contains(upstream[u].body, result[i])
                  /\ Contains(upstream[u].body, Sentinel)

C2_Witness ==
    /\ Redacting /\ pc = "ResponseRelayed" /\ Len(upstream) = 1
    /\ \E i \in 1..Len(result) :
          /\ ~Overlaps(result[i], Sentinel)
          /\ Count(inBody, result[i]) >= 2
          /\ ~Contains(upstream[1].body, result[i])

\* C8: a proxied request whose body was read as empty is never scanned and
\* never rejected; it reaches forwardRequest, and what is sent upstream is
\* the empty body.
C8_EmptyBodyBypass ==
    (Proxied /\ inBody = <<>> /\ pc \notin {"Received", "ReadFailed"}) =>
        /\ scanned = <<>>
        /\ result = <<>>
        /\ pc \notin {"Scanned", "Rejected"}
        /\ \A u \in 1..Len(upstream) : upstream[u].body = <<>>
        /\ pc \in Terminal => forwards = 1

C8_Witness ==
    /\ Proxied /\ inBody = <<>> /\ detector # <<>> /\ rejectOnLeak
    /\ pc = "ResponseRelayed" /\ Len(upstream) = 1 /\ upstream[1].body = <<>>

LifecycleEdges ==
    { <<"Received", "BodyRead">>, <<"Received", "ReadFailed">>,
      <<"BodyRead", "Scanned">>, <<"BodyRead", "Forward">>,
      <<"Scanned", "Rejected">>, <<"Scanned", "Forward">>,
      <<"Forward", "CreateFailed">>, <<"Forward", "UpstreamFailed">>,
      <<"Forward", "Forwarded">>, <<"Forwarded", "ResponseRelayed">> }

\* C9: every step of a proxied request follows the lifecycle Received ->
\* BodyRead -> (Scanned) -> Forward -> Forwarded -> ResponseRelayed or ends it
\* in a terminal state that is never left; a body-read failure answers 500
\* before any scan or upstream call, a failed upstream call answers 502, a
\* status once written is final and at most one upstream call is made.
C9_Lifecycle ==
    [][Proxied =>
        /\ <<pc, pc'>> \in LifecycleEdges
        /\ pc' = "ReadFailed" =>
              (status' = StatusInternalServerError /\ scanned' = <<>>
                  /\ upstream' = <<>> /\ forwards' = 0)
        /\ pc' = "UpstreamFailed" => status' = StatusBadGateway
        /\ pc' \in Terminal <=> status' # 0
        /\ status # 0 => status' = status
        /\ Len(upstream') <= 1
        /\ forwards' <= 1]_vars

C9_Witness ==
    /\ Proxied /\ pc = "UpstreamFailed" /\ status = StatusBadGateway
    /\ Len(upstream) = 1 /\ forwards = 1

\* C10 as stated: a request to /scan never reaches the upstream; a method
\* other than POST is answered 405 without a scan, and a POST scans the raw
\* body once and answers with the redacted text, the count and the findings.
C10_Original ==
    (path = ScanPath /\ pc # "Received") =>
        /\ upstream = <<>> /\ forwards = 0
        /\ method # MethodPost => (status = StatusMethodNotAllowed /\ scanned = <<>>)
        /\ method = MethodPost =>
              /\ scanned = <<inBody>>
              /\ response.redacted = redactSecrets(inBody, Detect(detector, inBody))
              /\ response.count = Len(Detect(detector, inBody))
              /\ Len(response.findings) = response.count

\* C10 amended: a request to /scan never reaches the upstream; a method other
\* than POST is answered 405 without a scan; a POST whose body cannot be read
\* is answered 500 without a scan; a POST whose body was read scans the raw
\* body once and answers 200 with the redacted text, a count equal to the
\* number of findings and a findings list of that length.
C10_DebugScan ==
    (path = ScanPath /\ pc # "Received") =>
        /\ upstream = <<>> /\ forwards = 0
        /\ pc \in {"ScanMethodNotAllowed", "ScanReadFailed", "ScanAnswered"}
        /\ method # MethodPost =>
              (pc = "ScanMethodNotAllowed" /\ status = StatusMethodNotAllowed
                  /\ scanned = <<>> /\ response = NoResponse)
        /\ pc = "ScanReadFailed" =>
              (status = StatusInternalServerError /\ scanned = <<>>
                  /\ response = NoResponse)
        /\ pc = "ScanAnswered" =>
              /\ method = MethodPost
              /\ status = StatusOK
              /\ scanned = <<inBody>>
              /\ response.count = Len(Detect(detector, inBody))
              /\ Len(response.findings) = response.count
              /\ response.redacted = redactSecrets(inBody, Detect(detector, inBody))
              /\ \A i \in 1..Len(result) :
                    ~Overlaps(result[i], Sentinel) =>
                        ~Contains(response.redacted, result[i])

C10_Witness ==
    /\ path = ScanPath /\ method = MethodPost /\ pc = "ScanAnswered"
    /\ response.count >= 2 /\ Len(response.findings) = response.count
    /\ Contains(response.redacted, Sentinel)
    /\ upstream = <<>>
\* ------------------------------------------------ claims on the walker
Returned == wpc = "done"

\* the payload carried by the returned body
ReturnedParams ==
    IF ret.path = "ok" THEN params
    ELSE IF ret.path = "fallback" THEN origParams
    ELSE NoParams

\* the scannable fields of a block: its text, the texts of its tool-result
\* sub-blocks, its serialized tool-use input
BlockFields(b) ==
    CASE b.type = "text" -> {b.text}
      [] b.type = "tool_use" ->
            IF b.input = NilInput THEN {} ELSE {MarshalInput(b.input)}
      [] b.type = "tool_result" ->
            {b.content[k].text : k \in {n \in 1..Len(b.content) : b.content[n].type = "text"}}
      [] OTHER -> {}

\* a tool-use input whose sentinel-substituted serialization does not re-parse
ReparseFails(b) ==
    /\ b.type = "tool_use" /\ b.input # NilInput
    /\ LET inputJSON == MarshalInput(b.input)
           found == Detect(detector, inputJSON) IN
       /\ Len(found) > 0
       /\ ~UnmarshalInput(ReplaceSecrets(inputJSON, found, Sentinel)).ok

\* C3 as stated: after a call that returns no error, no text block,
\* tool-result text, system entry or serialized tool-use input of the returned
\* payload contains a secret of the returned ScanResult, except a tool-use
\* input that was kept because its rewritten serialization did not re-parse.
C3_NoReportedSecretLeft ==
    (Returned /\ ~ret.err) =>
        \A n \in 1..Len(ret.Secrets) :
            /\ \A i \in 1..Len(ReturnedParams.Messages) :
                  \A j \in 1..Len(ReturnedParams.Messages[i].Content) :
                      LET b == ReturnedParams.Messages[i].Content[j] IN
                      \/ ReparseFails(origParams.Messages[i].Content[j]) /\ b = origParams.Messages[i].Content[j]
                      \/ \A f \in BlockFields(b) : ~Contains(f, ret.Secrets[n])
            /\ \A k \in 1..Len(ReturnedParams.System) :
                  ~Contains(ReturnedParams.System[k], ret.Secrets[n])

\* the text the raw mode hands to the detector
RawScanText(b) ==
    LET messages == GjsonMessages(b) IN
    IF messages.Exists /\ messages.IsArray THEN messages.Raw ELSE b

\* C4 as stated: a body that decodes but has no scanned text is handled as
\* in raw mode: one scan of the messages array text (or of the whole body),
\* no error, and a returned body in which every occurrence of every reported
\* secret is replaced by the sentinel.
C4_ZeroScanIsRawMode ==
    (Returned /\ decodable /\ textScanned = 0) =>
        /\ ~ret.err
        /\ scanned = <<RawScanText(wBody)>>
        /\ ret.Secrets = Detect(detector, RawScanText(wBody))
        /\ ret.body = ReplaceSecrets(wBody, ret.Secrets, Sentinel)
        /\ \A n \in 1..Len(ret.Secrets) : ~Contains(ret.body, ret.Secrets[n])

\* C5: a body that does not decode never yields an error; the detector runs
\* once, on the raw messages array if the field exists and is an array and
\* on the whole body otherwise; the returned body is the whole raw body with
\* the reported secrets replaced in order, and no reported secret that does
\* not overlap the sentinel is left anywhere in it.
C5_DecodeFailureRawMode ==
    (Returned /\ ~decodable) =>
        /\ ~ret.err
        /\ Len(scanned) = 1
        /\ scanned[1] = RawScanText(wBody)
        /\ ret.Secrets = Detect(detector, scanned[1])
        /\ ret.body = ReplaceSecrets(wBody, ret.Secrets, Sentinel)
        /\ \A n \in 1..Len(ret.Secrets) :
              ~Overlaps(ret.Secrets[n], Sentinel) => ~Contains(ret.body, ret.Secrets[n])

C5_Witness ==
    /\ Returned /\ ~decodable /\ ~ret.err
    /\ GjsonMessages(wBody).IsArray
    /\ \E n \in 1..Len(ret.Secrets) :
          /\ Count(wBody, ret.Secrets[n]) > Count(GjsonMessages(wBody).Raw, ret.Secrets[n])
          /\ ~Contains(ret.body, ret.Secrets[n])

\* C6: the step over a tool-use block whose serialized input has findings
\* replaces the input by the re-parsed rewritten serialization when that
\* re-parses (the new input then serializes without the found secrets) and
\* leaves the input as it was when it does not; in both cases the findings of
\* the block are appended to the result, and the result returned after a walk
\* that scanned text is the accumulated one.
C6_ToolUseReparse ==
    [][/\ (wpc' = "done" /\ decodable /\ textScanned > 0) => ret'.Secrets = wSecrets
       /\ (wpc = "walk" /\ cursor'.j = cursor.j + 1) =>
        LET b == params.Messages[cursor.i].Content[cursor.j]
            after == params'.Messages[cursor.i].Content[cursor.j]
            inputJSON == MarshalInput(b.input)
            found == Detect(detector, inputJSON)
            parsed == UnmarshalInput(ReplaceSecrets(inputJSON, found, Sentinel)) IN
        (b.type = "tool_use" /\ b.input # NilInput /\ Len(found) > 0) =>
            /\ wSecrets' = wSecrets \o found
            /\ parsed.ok =>
                  /\ after.input = parsed.value
                  /\ \A n \in 1..Len(found) :
                        ~Contains(MarshalInput(after.input), found[n])
            /\ ~parsed.ok => after.input = b.input]_vars

C6_Witness ==
    /\ Returned /\ ret.path = "ok"
    /\ \E i \in 1..Len(origParams.Messages) :
          \E j \in 1..Len(origParams.Messages[i].Content) :
              /\ ReparseFails(origParams.Messages[i].Content[j])
              /\ params.Messages[i].Content[j] = origParams.Messages[i].Content[j]
              /\ ret.Secrets = Detect(detector,
                     MarshalInput(origParams.Messages[i].Content[j].input))

\* the findings of the whole walk, in traversal order
RECURSIVE Flatten(_)
Flatten(ss) == IF ss = <<>> THEN <<>> ELSE Head(ss) \o Flatten(Tail(ss))

AllFindings(p) ==
    Flatten([i \in 1..Len(p.Messages) |->
                Flatten([j \in 1..Len(p.Messages[i].Content) |->
                    ProcessBlock(p.Messages[i].Content[j]).secrets])])
        \o Flatten([k \in 1..Len(p.System) |->
                ProcessText(TextBlock(p.System[k])).secrets])

\* the payload after the complete walk
WalkedParams(p) ==
    [Messages |-> [i \in 1..Len(p.Messages) |->
        [Content |-> [j \in 1..Len(p.Messages[i].Content) |->
            ProcessBlock(p.Messages[i].Content[j]).block]]],
     System |-> [k \in 1..Len(p.System) |->
        ProcessText(TextBlock(p.System[k])).block.text]]

\* C7: when json.Marshal(params) fails the call returns an error, the
\* findings of the whole walk and the original bytes; nothing is returned
\* before the end, an error comes from that failure only, and a returned body
\* is the original body, the serialization of the completely walked payload
\* or (raw mode) the original body with the secrets replaced.
C7_MarshalFailureKeepsOriginal ==
    /\ ~Returned => ret = NoRet
    /\ Returned =>
        /\ ret.err <=> ret.path = "marshalError"
        /\ ret.path = "marshalError" =>
              /\ ret.body = wBody
              /\ ret.Secrets = AllFindings(origParams)
              /\ textScanned > 0
        /\ ret.path = "ok" => ret.body = MarshalParams(WalkedParams(origParams))
        /\ ret.path = "fallback" => ret.body = wBody
        /\ ret.path = "raw" => ret.body = ReplaceSecrets(wBody, ret.Secrets, Sentinel)

C7_Witness ==
    /\ Returned /\ ret.err /\ ret.path = "marshalError"
    /\ Len(ret.Secrets) > 0 /\ params # origParams
    /\ ret.body = wBody /\ wBody # MarshalParams(params)

\* --------------------------------------------------- claims on truncate
Stars(n) == [i \in 1..n |-> "*"]

\* the preview the claim describes, computed on the characters of the secret
CharPreview(cs) ==
    IF Len(cs) < 8 THEN Stars(8)
    ELSE Encode(SubSeq(cs, 1, 2)) \o Stars(4)
         \o Encode(SubSeq(cs, Len(cs) - 1, Len(cs)))

\* C11: truncate returns a preview of exactly 8 characters: eight asterisks
\* when the secret has fewer than 8 characters, and otherwise its first two
\* characters, four asterisks and its last two characters, with the length
\* and the positions counted in characters, so that no code point of the
\* secret is split and the preview is never the whole secret.
C11_PreviewByCharacters ==
    tpc = "returned" =>
        /\ RuneCount(preview, 1) = 8
        /\ WellFormed(preview, 1)
        /\ preview = CharPreview(tInput)
        /\ preview # Encode(tInput)

\* ------------------------------------------------ claims on forwarding
Excluded(k) == ToLower(k) \in {ToLower(KeyHost), ToLower(KeyContentLength)}

\* a is b with some elements left out
RECURSIVE IsSubseq(_, _)
IsSubseq(a, b) ==
    \/ a = <<>>
    \/ /\ b # <<>>
       /\ \/ Head(a) = Head(b) /\ IsSubseq(Tail(a), Tail(b))
          \/ IsSubseq(a, Tail(b))

RECURSIVE CountValues(_, _)
CountValues(h, keys) ==
    IF keys = {} THEN 0
    ELSE LET k == CHOOSE x \in keys : TRUE
         IN  Len(h[k]) + CountValues(h, keys \ {k})

\* the header req carries each inbound header but Host and Content-Length,
\* with all its values, and nothing else
HeadersCopied(req) ==
    /\ \A n \in DOMAIN req.header : ~Excluded(n)
    /\ \A k \in DOMAIN header :
        ~Excluded(k) =>
            IsSubseq(header[k], Values(req.header, CanonicalKey(k)))
    /\ \A n \in AllKeys :
        Len(Values(req.header, n)) =
            CountValues(header, {k \in DOMAIN header :
                                    CanonicalKey(k) = n /\ ~Excluded(k)})

\* C12: every request handed to the upstream has the method, the path and
\* the raw query of the inbound request, on the configured upstream origin,
\* and carries every inbound header with all its values except Host and
\* Content-Length, whatever their case, no other header being dropped or
\* added by the copy.
C12_ForwardPreserves ==
    \A i \in 1..Len(upstream) :
        /\ upstream[i].method = method
        /\ upstream[i].origin = UpstreamOrigin
        /\ upstream[i].path = path
        /\ upstream[i].query = query
        /\ HeadersCopied(upstream[i])

\* -------------------------------------------------- claims on shutdown
Ended == {"aborted", "cut", "killed"}

\* once srv.Shutdown is called no request is accepted
NoAcceptAfterShutdown ==
    srv \in {"shutdown", "exited"} =>
        \A r \in Requests : reqs[r] = "none" => reqs'[r] = "none"

\* a request ended by the shutdown, in this step
EndedNow(r) == reqs[r] \notin Ended /\ reqs'[r] \in Ended

\* C13 as stated: on shutdown the server accepts no new request, every
\* request in flight keeps running, its pending upstream call included,
\* until it completes or the 10 seconds of grace have passed, and only the
\* requests outstanding after that period are terminated.
C13_Original ==
    [][/\ NoAcceptAfterShutdown
       /\ \A r \in Requests :
            EndedNow(r) => srv = "shutdown" /\ clock = GracePeriod]_vars

\* C13: on shutdown the server accepts no new request once srv.Shutdown is
\* called, the handler of a request in flight is terminated only when the
\* 10 seconds of grace have passed since that call, and only the requests
\* outstanding then are terminated; the upstream call of a request in
\* flight is not left running: the interrupt ends the context of every
\* request, so that a call still pending returns no response, and a call or
\* a relay is cut short only after the interrupt.
C13_GracefulShutdown ==
    [][/\ NoAcceptAfterShutdown
       /\ \A r \in Requests :
            /\ reqs'[r] = "killed" /\ reqs[r] # "killed" =>
                   srv = "shutdown" /\ clock = GracePeriod /\ Active(r)
            /\ ctxDone /\ reqs[r] = "upstream" => reqs'[r] # "relaying"
            /\ EndedNow(r) /\ reqs'[r] # "killed" => ctxDone]_vars

C13_Witness ==
    /\ srv = "shutdown"
    /\ clock < GracePeriod
    /\ \E r \in Requests : reqs[r] = "aborted"

\* ----------------------------------- claims on the scope of the live scan
MessagesRaw == GjsonMessages(inBody).Raw

HasMessagesArray == GjsonMessages(inBody).Exists /\ GjsonMessages(inBody).IsArray

\* what the live path does with a body that has a messages array, once the
\* scan has run
ScanOfMessages ==
    (Proxied /\ Len(scanned) = 1) =>
        LET messages == GjsonMessages(inBody) IN
        (messages.Exists /\ messages.IsArray) =>
            LET found == Detect(detector, messages.Raw) IN
            /\ scanned = <<messages.Raw>>
            /\ result = found
            /\ pc = "Rejected" => rejectOnLeak /\ found # <<>>
            /\ \A u \in 1..Len(upstream) :
                upstream[u].body = redactSecrets(inBody, found)
            /\ found = <<>> =>
                /\ \A u \in 1..Len(upstream) : upstream[u].body = inBody
                /\ pc \in Terminal => forwards = 1

\* C14: for a proxied body with a top-level messages array the detector is
\* given the raw text of that array only, and the replacement goes over the
\* whole body with the findings of that scan: a value outside messages is
\* replaced, or the request rejected, only when the scan of messages
\* reports it, and when that scan reports nothing the body is forwarded
\* unchanged, in reject mode as in redact mode.
C14_MessagesOnlyScan == []ScanOfMessages

C14_Witness ==
    /\ Proxied /\ HasMessagesArray /\ rejectOnLeak
    /\ Detect(detector, inBody) # <<>>
    /\ Detect(detector, MessagesRaw) = <<>>
    /\ pc = "ResponseRelayed"
    /\ Len(upstream) = 1 /\ upstream[1].body = inBody
====
